---- MODULE Spec2Model ----
(***************************************************************************)
(* Model of the multi-stage generation pipeline of interview-coder:       *)
(* electron/ProcessingHelper.ts (ProcessingHelper, ConfigHelper) and the  *)
(* reset shortcut of electron/shortcuts.ts; the loading flags of the      *)
(* Solutions component (unnamed/part_000) as its listeners set them.      *)
(*                                                                         *)
(* Conventions.                                                            *)
(*  - A JavaScript string is a sequence of word tokens; "" is << >>.       *)
(*    String.includes is containment of a contiguous run of tokens.       *)
(*  - A null reference is the token Null.                                  *)
(*  - A run is one invocation of processScreenshots; runs are numbered in  *)
(*    the order of their invocation.  The AbortController a run creates    *)
(*    is identified with the run's number; 0 is the null controller.       *)
(*  - An async function runs atomically between two awaits of real I/O     *)
(*    (screenshot loading, provider calls); awaits that only cross a       *)
(*    microtask boundary do not let other handlers in.                     *)
(*  - runs[r].trace is the history of run r: the provider calls it issued  *)
(*    ("call") and the events it sent to the UI ("send"), in order.        *)
(***************************************************************************)
EXTENDS Integers, Sequences, FiniteSets, TLC

\* ------------------------------------------------------------------ bounds
MaxRuns == 2           \* invocations of processScreenshots
MaxConfigChanges == 1  \* config-updated notifications

\* --------------------------------------------------------------- constants
Null == <<"null">>
Providers == {"openai", "gemini", "anthropic"}
Keys == {<< >>, <<"key">>}
RunIds == 1..MaxRuns

\* String.prototype.includes on token sequences
Includes(s, needle) ==
  \E i \in 0..(Len(s) - Len(needle)) :
     \A j \in 1..Len(needle) : s[i + j] = needle[j]

\* ---- the user-facing messages of ProcessingHelper.ts
MsgCanceled == <<"Processing", "was", "canceled", "by", "the", "user">>
MsgOpenAINotConfigured ==
  <<"OpenAI", "API", "key", "not", "configured", "or", "invalid",
    "Please", "check", "your", "settings">>
MsgParseFailed ==
  <<"Failed", "to", "parse", "problem", "information", "Please", "try",
    "again", "or", "use", "clearer", "screenshots">>
MsgGeminiNotConfigured ==
  <<"Gemini", "API", "key", "not", "configured", "Please", "check", "your",
    "settings">>
MsgGeminiFailed ==
  <<"Failed", "to", "process", "with", "Gemini", "API", "Please", "check",
    "your", "API", "key", "or", "try", "again", "later">>
MsgAnthropicNotConfigured ==
  <<"Anthropic", "API", "key", "not", "configured", "Please", "check",
    "your", "settings">>
MsgClaudeRateLimit ==
  <<"Claude", "API", "rate", "limit", "exceeded", "Please", "wait", "a",
    "few", "minutes", "before", "trying", "again">>
MsgClaudeTooMuch ==
  <<"Your", "screenshots", "contain", "too", "much", "information", "for",
    "Claude", "to", "process", "Switch", "to", "OpenAI", "or", "Gemini",
    "in", "settings", "which", "can", "handle", "larger", "inputs">>
MsgAnthropicFailed ==
  <<"Failed", "to", "process", "with", "Anthropic", "API", "Please",
    "check", "your", "API", "key", "or", "try", "again", "later">>
MsgInvalidOpenAIKey ==
  <<"Invalid", "OpenAI", "API", "key", "Please", "check", "your",
    "settings">>
MsgOpenAIRateLimit ==
  <<"OpenAI", "API", "rate", "limit", "exceeded", "or", "insufficient",
    "credits", "Please", "try", "again", "later">>
MsgOpenAIServerError ==
  <<"OpenAI", "server", "error", "Please", "try", "again", "later">>
MsgFailedToProcessRetry ==
  <<"Failed", "to", "process", "screenshots", "Please", "try", "again">>
MsgNoProblemInfo == <<"No", "problem", "info", "available">>
MsgFailedToGenerate == <<"Failed", "to", "generate", "solution">>
MsgFailedToGenerateSolutions == <<"Failed", "to", "generate", "solutions">>
MsgFailedToLoad == <<"Failed", "to", "load", "screenshot", "data">>
MsgFailedToLoadDebug ==
  <<"Failed", "to", "load", "screenshot", "data", "for", "debugging">>
MsgOpenAINotConfiguredDebug ==
  <<"OpenAI", "API", "key", "not", "configured", "Please", "check", "your",
    "settings">>
MsgGeminiDebugFailed ==
  <<"Failed", "to", "process", "debug", "request", "with", "Gemini", "API",
    "Please", "check", "your", "API", "key", "or", "try", "again", "later">>
MsgAnthropicDebugFailed ==
  <<"Failed", "to", "process", "debug", "request", "with", "Anthropic",
    "API", "Please", "check", "your", "API", "key", "or", "try", "again",
    "later">>
MsgFailedDebug == <<"Failed", "to", "process", "debug", "request">>

\* ---- messages carried by the exceptions of the transports
MsgTransport == <<"Request", "failed">>
MsgJsonSyntax == <<"Unexpected", "end", "of", "JSON", "input">>

\* ---- the payloads produced by the providers
GoodCode == <<"def", "solve">>
DebugPlaceholder ==
  <<"//", "Debug", "mode", "-", "see", "analysis", "below">>

\* ------------------------------------------------------ response texts
\* The text of a model response is a sequence of tokens.  One token, NL, is
\* the newline; the others stand on a line separated by single spaces, except
\* that the token after an opening fence follows it without a space.  The
\* classes below say which tokens the regular expressions of the extractors
\* tell apart; every other token is a plain word.  The token after an opening
\* fence is a plain word, a tag, a fence or a newline.  A tag of SymbolTags
\* begins with word characters and goes on with others: a pattern that takes
\* the word characters leaves TagRest of it to the text that follows.
NL == "\n"
\* the fence of a code block: three backquotes
Fence == "fence3"
Bullets == {"-", "*"}
Numbers == {"1.", "2.", "3."}
Headings ==
  {"Pseudocode:", "Algorithm:", "Steps:", "Approach:", "Note:", "Time:",
   "Space:", "Complexity:"}
PseudoTags == {"pseudocode", "algorithm", "plaintext"}
PseudoLabels == {"Pseudocode:", "Pseudocode", "pseudocode", "Algorithm:",
                 "Algorithm", "algorithm"}
StepsLabels == {"Steps:", "Approach:"}
TimeLabels == {"Time", "Time:"}
SpaceLabels == {"Space", "Space:"}
ComplexityLabels == {"Complexity", "Complexity:"}
BigO == {"O(n)", "O(1)"}
SymbolTags == {"c++"}
TagRest(t) == "++"
NonWords ==
  {NL, Fence, ".", ":", "##", "{", "}", "[", "]"} \cup Bullets \cup Numbers
    \cup Headings \cup BigO \cup SymbolTags
IsWord(t) == t \notin NonWords

Min(S) == CHOOSE x \in S : \A y \in S : x <= y
NonEmpty(list) == SelectSeq(list, LAMBDA x : x # << >>)

\* the first position from i on that holds no white space
SkipSpace(s, i) ==
  CHOOSE j \in i..(Len(s) + 1) :
    /\ j = Len(s) + 1 \/ s[j] # NL
    /\ \A m \in i..(j - 1) : s[m] = NL

\* the position of the newline that ends the line of position i
LineEnd(s, i) ==
  CHOOSE j \in i..(Len(s) + 1) :
    /\ j = Len(s) + 1 \/ s[j] = NL
    /\ \A m \in i..(j - 1) : s[m] # NL

\* String.prototype.trim
Trim(s) ==
  LET a == SkipSpace(s, 1)
  IN  IF a > Len(s) THEN << >>
      ELSE SubSeq(s, a, CHOOSE b \in a..Len(s) :
                          s[b] # NL /\ \A m \in (b + 1)..Len(s) : s[m] = NL)

RECURSIVE BulletCaptures(_, _)
\* the captures of bulletRegex from the line start i on: a line that begins
\* with a bullet or a number gives the rest of the line, or, when nothing
\* follows the marker on its line, the next line that is not blank
BulletCaptures(s, i) ==
  LET j == SkipSpace(s, i)
      marked == j <= Len(s) /\ s[j] \in Bullets \cup Numbers
      k == SkipSpace(s, j + 1)
      e == IF marked THEN LineEnd(s, k) ELSE LineEnd(s, j)
      here == IF marked THEN <<SubSeq(s, k, e - 1)>> ELSE << >>
  IN  here \o (IF e > Len(s) THEN << >> ELSE BulletCaptures(s, e + 1))

Digits(t) == IF t = "1." THEN "1" ELSE IF t = "2." THEN "2" ELSE "3"

RECURSIVE SplitFrom(_, _, _)
\* text.split(/(?:[.!?]\s+|\n)/): the pieces from position i on, cur being
\* the piece under construction
SplitFrom(s, i, cur) ==
  IF i > Len(s) THEN <<cur>>
  ELSE IF s[i] = NL \/ (s[i] = "." /\ i < Len(s))
  THEN <<cur>> \o SplitFrom(s, i + 1, << >>)
  ELSE IF s[i] \in Numbers /\ i < Len(s)
  THEN <<Append(cur, Digits(s[i]))>> \o SplitFrom(s, i + 1, << >>)
  ELSE SplitFrom(s, i + 1, Append(cur, s[i]))

\* as extractBulletPoints, returning every sentence
extractBulletPointsUncut(text) ==
  LET matches == BulletCaptures(text, 1)
  IN  IF matches # << >> THEN NonEmpty(matches)
      ELSE NonEmpty(SplitFrom(text, 1, << >>))

extractBulletPoints(text) ==
  LET matches == BulletCaptures(text, 1)
      sentences == NonEmpty(SplitFrom(text, 1, << >>))
  IN  IF matches # << >> THEN NonEmpty(matches)
      ELSE SubSeq(sentences, 1, IF Len(sentences) < 5 THEN Len(sentences)
                                ELSE 5)

Fences(s) == {i \in 1..Len(s) : s[i] = Fence}
HasBlock(s) == Cardinality(Fences(s)) >= 2
OpenFence(s) == Min(Fences(s))
CloseFence(s) == Min(Fences(s) \ {OpenFence(s)})

extractCodeBlock(text) ==
  IF HasBlock(text)
  THEN LET k == OpenFence(text) + 1
           from == IF IsWord(text[k]) THEN k + 1 ELSE k
       IN  IF text[k] \in SymbolTags
           THEN Trim(<<TagRest(text[k])>> \o
                     SubSeq(text, k + 1, CloseFence(text) - 1))
           ELSE Trim(SubSeq(text, from, CloseFence(text) - 1))
  ELSE Trim(text)

\* the text between the label at h and the first newline after it that is
\* followed, white space apart, by the end of the text or by a token of
\* stops; empty when there is no such newline
SectionAfter(s, h, stops) ==
  LET ends == {p \in (h + 1)..Len(s) :
                 /\ s[p] = NL
                 /\ LET q == SkipSpace(s, p + 1)
                    IN  q = Len(s) + 1 \/ s[q] \in stops}
  IN  IF ends = {} THEN << >> ELSE Trim(SubSeq(s, h + 1, Min(ends) - 1))

RECURSIVE NumberedLines(_, _)
\* the matches of /(?:^|\n)\s*(?:\d+\.\s+)(.+)/g, the search standing at the
\* start of the text (pos = 0) or at the newline of position pos
NumberedLines(s, pos) ==
  LET j == SkipSpace(s, pos + 1)
      hit == /\ j <= Len(s)
             /\ s[j] \in Numbers
             /\ SkipSpace(s, j + 1) <= Len(s)
      e == IF hit THEN LineEnd(s, SkipSpace(s, j + 1)) ELSE LineEnd(s, j)
      here == IF hit THEN <<SubSeq(s, IF pos = 0 THEN 1 ELSE pos, e - 1)>>
              ELSE << >>
  IN  here \o (IF e > Len(s) THEN << >> ELSE NumberedLines(s, e))

RECURSIVE JoinLines(_)
\* Array.prototype.join with the newline as separator
JoinLines(list) ==
  IF list = << >> THEN << >>
  ELSE IF Len(list) = 1 THEN list[1]
  ELSE list[1] \o <<NL>> \o JoinLines(Tail(list))

extractPseudoCode(text) ==
  LET k == OpenFence(text) + 1
      tagged == Trim(SubSeq(text, IF text[k] \in PseudoTags THEN k + 1 ELSE k,
                            CloseFence(text) - 1))
      anyBlock == Trim(SubSeq(text, k, CloseFence(text) - 1))
      labels == {h \in 1..Len(text) : text[h] \in PseudoLabels}
      byLabel == SectionAfter(text, Min(labels), Headings \cup Numbers)
      heads == {h \in labels :
                  \E g \in 1..(h - 1) :
                    text[g] = "##" /\ SkipSpace(text, g + 1) = h}
      h2 == Min(heads)
      ends2 == {e \in (h2 + 1)..Len(text) : text[e] = "##"} \cup
               {Len(text) + 1}
      byHead == Trim((IF text[h2] \in Headings THEN <<":">> ELSE << >>) \o
                     SubSeq(text, h2 + 1, Min(ends2) - 1))
      steps == {h \in 1..Len(text) : text[h] \in StepsLabels}
      bySteps == SectionAfter(text, Min(steps),
                              Headings \cup Numbers \cup TimeLabels
                                \cup SpaceLabels)
      stepLines == NumberedLines(text, 0)
  IN  IF HasBlock(text) /\ tagged # << >> THEN tagged
      ELSE IF HasBlock(text) /\ anyBlock # << >> THEN anyBlock
      ELSE IF labels # {} /\ byLabel # << >> THEN byLabel
      ELSE IF heads # {} /\ byHead # << >> THEN byHead
      ELSE IF steps # {} /\ bySteps # << >> THEN bySteps
      ELSE IF stepLines # << >> THEN Trim(JoinLines(stepLines))
      ELSE << >>

ComplexityNotAvailable == <<"O(n)", "-", "Complexity", "not", "available">>

\* as formatComplexity, without the test for a hyphen or the word because
formatComplexityAlwaysSplit(complexity) ==
  LET big == {i \in 1..Len(complexity) : complexity[i] \in BigO}
      i == Min(big)
  IN  IF complexity = << >> THEN ComplexityNotAvailable
      ELSE IF big # {}
      THEN <<complexity[i], "-">> \o
           Trim(SubSeq(complexity, 1, i - 1) \o
                SubSeq(complexity, i + 1, Len(complexity)))
      ELSE <<"O(n)", "-">> \o Trim(complexity)

formatComplexity(complexity) ==
  LET big == {i \in 1..Len(complexity) : complexity[i] \in BigO}
      i == Min(big)
      plain == \A j \in 1..Len(complexity) :
                 complexity[j] \notin {"-", "because"}
  IN  IF complexity = << >> THEN ComplexityNotAvailable
      ELSE IF big # {}
      THEN IF plain
           THEN <<complexity[i], "-">> \o
                Trim(SubSeq(complexity, 1, i - 1) \o
                     SubSeq(complexity, i + 1, Len(complexity)))
           ELSE Trim(complexity)
      ELSE <<"O(n)", "-">> \o Trim(complexity)

\* The labels that start at h, in the order the regular expression tries
\* them: n is the number of tokens of the label, colon says that the colon
\* which ends the label is left to the captured text.
LabelsAt(s, h, words) ==
  (IF s[h] \in words \ Headings /\ h + 1 <= Len(s)
        /\ s[h + 1] \in ComplexityLabels
   THEN <<[n |-> 2, colon |-> FALSE]>> \o
        (IF s[h + 1] \in Headings THEN <<[n |-> 2, colon |-> TRUE]>>
         ELSE << >>)
   ELSE << >>) \o
  (IF s[h] \in words
   THEN <<[n |-> 1, colon |-> FALSE]>> \o
        (IF s[h] \in Headings THEN <<[n |-> 1, colon |-> TRUE]>> ELSE << >>)
   ELSE << >>)

\* the text after a label, white space skipped
AfterLabel(s, h, lab) ==
  IF lab.colon THEN <<":">> \o SubSeq(s, h + lab.n, Len(s))
  ELSE SubSeq(s, SkipSpace(s, h + lab.n), Len(s))

RECURSIVE TimeEnd(_, _)
\* where the span captured by timeRegex ends, the newline at e being the end
\* of its first lines: at the first such newline that is followed, white
\* space apart, by the space label or by the end of the text; 0 when a blank
\* line or the end of the text comes first
TimeEnd(r, e) ==
  IF e > Len(r) THEN 0
  ELSE LET q == SkipSpace(r, e + 1)
       IN  IF q = Len(r) + 1 \/ r[q] \in SpaceLabels THEN e
           ELSE IF r[e + 1] # NL THEN TimeEnd(r, LineEnd(r, e + 1))
           ELSE 0

TimeSpan(r) ==
  IF r = << >> \/ r[1] = NL \/ TimeEnd(r, LineEnd(r, 1)) = 0 THEN << >>
  ELSE SubSeq(r, 1, TimeEnd(r, LineEnd(r, 1)) - 1)

SpaceSpan(r) ==
  IF r = << >> \/ r[1] = NL THEN << >> ELSE SubSeq(r, 1, LineEnd(r, 1) - 1)

RECURSIVE TimeMatch(_, _), SpaceMatch(_, _)
\* timeMatch[1], searched from position h on; empty when nothing matches
TimeMatch(s, h) ==
  IF h > Len(s) THEN << >>
  ELSE LET labs == LabelsAt(s, h, TimeLabels)
           found == NonEmpty([i \in 1..Len(labs) |->
                                TimeSpan(AfterLabel(s, h, labs[i]))])
       IN  IF found # << >> THEN found[1] ELSE TimeMatch(s, h + 1)

\* spaceMatch[1], searched from position h on; empty when nothing matches
SpaceMatch(s, h) ==
  IF h > Len(s) THEN << >>
  ELSE LET labs == LabelsAt(s, h, SpaceLabels)
           found == NonEmpty([i \in 1..Len(labs) |->
                                SpaceSpan(AfterLabel(s, h, labs[i]))])
       IN  IF found # << >> THEN found[1] ELSE SpaceMatch(s, h + 1)

\* as extractComplexity, a field without a label taking the text of the other
extractComplexityShared(text) ==
  LET t == TimeMatch(text, 1)
      sp == SpaceMatch(text, 1)
  IN  [time |-> formatComplexity(IF t = << >> THEN sp ELSE t),
       space |-> formatComplexity(IF sp = << >> THEN t ELSE sp)]

extractComplexity(text) ==
  [time |-> formatComplexity(TimeMatch(text, 1)),
   space |-> formatComplexity(SpaceMatch(text, 1))]

\* ---------------------------------------- the result of a debug response
DefaultThought ==
  <<"Debug", "analysis", "based", "on", "your", "screenshots">>
DebugComplexity == <<"N/A", "-", "Debug", "mode">>

\* the phrases the helper turns into headings, in the order of its replace
\* calls, and the heading of each
DebugPhrases == <<"improvements", "optimizations", "explanation">>
HeadingOf(t) ==
  IF t = "improvements" THEN <<"##", "Code", "Improvements">>
  ELSE IF t = "optimizations" THEN <<"##", "Optimizations">>
  ELSE <<"##", "Explanation">>

\* String.prototype.replace with a pattern that has no g flag
ReplaceFirst(s, t) ==
  LET at == {i \in 1..Len(s) : s[i] = t}
  IN  IF at = {} THEN s
      ELSE SubSeq(s, 1, Min(at) - 1) \o HeadingOf(t) \o
           SubSeq(s, Min(at) + 1, Len(s))

formattedDebugContent(debugContent) ==
  IF \E i \in 1..(Len(debugContent) - 1) :
       debugContent[i] = "##" /\ debugContent[i + 1] # NL
  THEN debugContent
  ELSE ReplaceFirst(ReplaceFirst(ReplaceFirst(debugContent, DebugPhrases[1]),
                                 DebugPhrases[2]), DebugPhrases[3])

extractedCode(debugContent) ==
  IF HasBlock(debugContent)
       /\ CloseFence(debugContent) > OpenFence(debugContent) + 1
  THEN LET k == OpenFence(debugContent) + 1
           rest == IF debugContent[k] \in SymbolTags
                   THEN <<TagRest(debugContent[k])>>
                   ELSE IF IsWord(debugContent[k]) THEN << >>
                   ELSE <<debugContent[k]>>
       IN  Trim(rest \o SubSeq(debugContent, k + 1,
                               CloseFence(debugContent) - 1))
  ELSE DebugPlaceholder

RECURSIVE bulletPoints(_, _)
\* the matches of the bullet pattern from the line start a on, each with
\* its prefix replaced and trimmed: a line that begins with a bullet or a
\* number and goes on gives the rest of the line when it is the first line
\* of the text; on a later line the match begins with the newline, the
\* prefix pattern does not apply, and the line is kept whole
bulletPoints(s, a) ==
  LET e == LineEnd(s, a)
      here == IF e - a >= 2 /\ s[a] \in Bullets \cup Numbers
              THEN <<SubSeq(s, IF a = 1 THEN a + 1 ELSE a, e - 1)>>
              ELSE << >>
  IN  here \o (IF e > Len(s) THEN << >> ELSE bulletPoints(s, e + 1))

\* the response object of processExtraScreenshotsHelper
DebugResponse(debugContent) ==
  LET points == bulletPoints(formattedDebugContent(debugContent), 1)
  IN  [code |-> extractedCode(debugContent),
       debug_analysis |-> formattedDebugContent(debugContent),
       thoughts |-> IF points # << >>
                    THEN SubSeq(points, 1, IF Len(points) < 5
                                           THEN Len(points) ELSE 5)
                    ELSE <<DefaultThought>>,
       time_complexity |-> DebugComplexity,
       space_complexity |-> DebugComplexity]

VARIABLES
  config,          \* what configHelper.loadConfig() returns
  openaiClient,    \* ProcessingHelper.openaiClient: Null or the key it holds
  geminiApiKey,    \* ProcessingHelper.geminiApiKey
  anthropicClient, \* ProcessingHelper.anthropicClient
  currentProcessingAbortController,       \* run number or 0
  currentExtraProcessingAbortController,  \* run number or 0
  aborted,         \* the controllers whose signal is aborted
  view,            \* deps.getView()
  problemInfo,     \* deps.getProblemInfo(): 0 (null) or the run that set it
  hasDebugged,     \* deps.setHasDebugged
  runs,            \* the invocations of processScreenshots
  started,         \* how many invocations have begun
  configChanges,   \* how many config-updated notifications were delivered
  log,             \* the distinct lines written to the console
  pipeline,        \* the data of a main run: responses, locals, payloads
  reply,           \* the text of one response and what the helpers make of it
  loading          \* the Solutions component: mounted or not, its flags that are true

vars == <<config, openaiClient, geminiApiKey, anthropicClient,
          currentProcessingAbortController,
          currentExtraProcessingAbortController, aborted, view, problemInfo,
          hasDebugged, runs, started, configChanges, log, pipeline, reply,
          loading>>

\* ------------------------------------------------------- trace of a run
Call(stage, prov, arg) ==
  [t |-> "call", name |-> stage, prov |-> prov, arg |-> arg]
Send(ev, arg) == [t |-> "send", name |-> ev, prov |-> "", arg |-> arg]
\* how a provider call ended: "returned", "threw" or "aborted"
Resp(how, prov) == [t |-> "resp", name |-> how, prov |-> prov, arg |-> << >>]

\* ---------------------------------------------------- data of a main run
\* What JSON.parse returns, as far as the pipeline looks at it: the kind of
\* the value and, for an object, its fields.
JsonValue(kind, fields) == [kind |-> kind, fields |-> fields]
JsNull == JsonValue("null", {})

\* finalResponse of generateSolutionsHelper
NewFinalResponse ==
  [code |-> << >>, thoughts |-> << >>, time_complexity |-> << >>,
   space_complexity |-> << >>]

\* The data of a main run before its Stage 1 call: the stored ProblemInfo,
\* the text of the last response, the call in flight, the locals of
\* generateSolutionsHelper, the events sent and the error of the result.
NewPipeline ==
  [at |-> "idle", prov |-> "", stored |-> JsNull, responseText |-> Null,
   call |-> Null, edgeCases |-> << >>, solutionThoughts |-> << >>,
   thoughts |-> << >>, pseudoCode |-> << >>,
   finalResponse |-> NewFinalResponse, events |-> << >>, error |-> << >>]

\* the reading of a response before any helper has been applied
NoDebugResponse ==
  [code |-> << >>, debug_analysis |-> << >>, thoughts |-> << >>,
   time_complexity |-> << >>, space_complexity |-> << >>]

NewReply ==
  [at |-> "idle", responseText |-> << >>, thoughts |-> << >>,
   pseudoCode |-> << >>, code |-> << >>,
   complexity |-> [time |-> << >>, space |-> << >>],
   response |-> NoDebugResponse]

NoRun ==
  [kind |-> "none", pc |-> "idle", prov |-> "", code |-> << >>,
   cancelledAt |-> 0, trace |-> << >>]

\* The history of a run that has returned can no longer change; it is kept
\* for the state in which the run returns and dropped at the next step.
Retire(rs) ==
  [r \in RunIds |->
     IF rs[r].pc \in {"done", "gone"}
     THEN [NoRun EXCEPT !.kind = rs[r].kind, !.pc = "gone"]
     ELSE rs[r]]

\* ------------------------------------------------- Provider Client Registry
\* initializeAIClient as a function of the loaded configuration
NoClients == [openai |-> Null, gemini |-> Null, anthropic |-> Null]

\* as initializeAIClient, building the client whether or not a key is set
initializeAIClientAnyKey(cfg) ==
  [NoClients EXCEPT ![cfg.apiProvider] = cfg.apiKeys[cfg.apiProvider]]

\* as initializeAIClient, building a client for every provider that has a key
initializeAIClientEveryKey(cfg) ==
  [openai |-> IF cfg.apiKeys["openai"] # << >>
              THEN cfg.apiKeys["openai"] ELSE Null,
   gemini |-> IF cfg.apiKeys["gemini"] # << >>
              THEN cfg.apiKeys["gemini"] ELSE Null,
   anthropic |-> IF cfg.apiKeys["anthropic"] # << >>
                 THEN cfg.apiKeys["anthropic"] ELSE Null]

initializeAIClient(cfg) ==
  LET apiKey == cfg.apiKeys[cfg.apiProvider]
  IN  IF cfg.apiProvider = "openai"
      THEN IF apiKey # << >>
           THEN [openai |-> apiKey, gemini |-> Null, anthropic |-> Null]
           ELSE NoClients
      ELSE IF cfg.apiProvider = "gemini"
      THEN IF apiKey # << >>
           THEN [openai |-> Null, gemini |-> apiKey, anthropic |-> Null]
           ELSE NoClients
      ELSE IF apiKey # << >>
           THEN [openai |-> Null, gemini |-> Null, anthropic |-> apiKey]
           ELSE NoClients

\* the lines initializeAIClient writes to the console
initializeAIClientLog(cfg) ==
  { <<"config.apiProvider", cfg.apiProvider>>,
    <<"config.apiKeys">> \o cfg.apiKeys["openai"] \o cfg.apiKeys["gemini"]
                         \o cfg.apiKeys["anthropic"],
    <<"apiKey">> \o cfg.apiKeys[cfg.apiProvider] }

\* the client field that belongs to a provider
ClientOf(cl, p) == cl[p]

Clients ==
  [openai |-> openaiClient, gemini |-> geminiApiKey,
   anthropic |-> anthropicClient]

SetClients(cl) ==
  /\ openaiClient' = cl.openai
  /\ geminiApiKey' = cl.gemini
  /\ anthropicClient' = cl.anthropic

\* ------------------------------------------------ the Solutions component
\* The listeners the component registers when it is mounted, as functions of
\* the set l of its loading flags that are true.
Unmounted == [mounted |-> FALSE, flags |-> {}]

Mounted == [mounted |-> TRUE, flags |-> {}]

onSolutionStart(l) == {"loadingEdgeCases"}

onProblemExtracted(l) == l \cup {"loadingEdgeCases"}

onEdgeCasesExtracted(l) ==
  (l \ {"loadingEdgeCases"}) \cup {"loadingSolutionThinking"}

onSolutionThinking(l) ==
  (l \ {"loadingSolutionThinking"}) \cup {"loadingApproach"}

onApproachDeveloped(l) == (l \ {"loadingApproach"}) \cup {"loadingCode"}

onCodeGenerated(l) == (l \ {"loadingCode"}) \cup {"loadingComplexity"}

onSolutionError(l) == {}

\* the data of SOLUTION_SUCCESS is the result object of the run, never empty
onSolutionSuccess(l) == {}

\* the flags after the event ev has reached the component
Listener(l, ev) ==
  IF ev.t # "send" THEN l
  ELSE IF ev.name = "INITIAL_START" THEN onSolutionStart(l)
  ELSE IF ev.name = "PROBLEM_EXTRACTED" THEN onProblemExtracted(l)
  ELSE IF ev.name = "EDGE_CASES_EXTRACTED" THEN onEdgeCasesExtracted(l)
  ELSE IF ev.name = "SOLUTION_THINKING" THEN onSolutionThinking(l)
  ELSE IF ev.name = "APPROACH_DEVELOPED" THEN onApproachDeveloped(l)
  ELSE IF ev.name = "CODE_GENERATED" THEN onCodeGenerated(l)
  ELSE IF ev.name = "INITIAL_SOLUTION_ERROR" THEN onSolutionError(l)
  ELSE IF ev.name = "SOLUTION_SUCCESS" THEN onSolutionSuccess(l)
  ELSE l

\* the flags after the entries of a run's history have happened, the events
\* among them reaching the component in the order in which they were sent
RECURSIVE Received(_, _)
Received(l, entries) ==
  IF ~l.mounted \/ entries = << >> THEN l
  ELSE Received([l EXCEPT !.flags = Listener(@, Head(entries))],
                Tail(entries))

\* the state after the construction of the ProcessingHelper
Constructed ==
  /\ config \in {c \in [apiProvider : Providers, apiKeys : [Providers -> Keys]] :
                   \A p \in Providers \ {c.apiProvider} : c.apiKeys[p] = << >>}
  /\ openaiClient = initializeAIClient(config).openai
  /\ geminiApiKey = initializeAIClient(config).gemini
  /\ anthropicClient = initializeAIClient(config).anthropic
  /\ currentProcessingAbortController = 0
  /\ currentExtraProcessingAbortController = 0
  /\ aborted = {}
  /\ view = "queue"
  /\ problemInfo = 0
  /\ hasDebugged = FALSE
  /\ runs = [r \in RunIds |-> NoRun]
  /\ started = 0
  /\ configChanges = 0
  /\ log = initializeAIClientLog(config)
  /\ pipeline = NewPipeline
  /\ reply = NewReply

\* the program with no Solutions component mounted
Init == Constructed /\ loading = Unmounted

\* the program with the Solutions component mounted, its flags as useState
\* sets them: all false
InitMounted == Constructed /\ loading = Mounted

\* as updateConfig, with a listener that drops the clients it finds already
\* built for the configuration
updateConfigDropping(p, k) ==
  /\ configChanges < MaxConfigChanges
  /\ LET newConfig ==
           [apiProvider |-> p, apiKeys |-> [config.apiKeys EXCEPT ![p] = k]]
     IN  /\ config' = newConfig
         /\ SetClients(IF Clients = initializeAIClient(newConfig)
                       THEN NoClients
                       ELSE initializeAIClient(newConfig))
         /\ log' = log \cup initializeAIClientLog(newConfig)
  /\ configChanges' = configChanges + 1
  /\ runs' = Retire(runs)
  /\ UNCHANGED <<currentProcessingAbortController,
                 currentExtraProcessingAbortController, aborted, view,
                 problemInfo, hasDebugged, started, pipeline, reply,
                 loading>>

\* configHelper.updateConfig({apiProvider, apiKeys}) and the 'config-updated'
\* listener of the constructor; the event is emitted whether or not the update
\* changes the stored configuration
updateConfig(p, k) ==
  /\ configChanges < MaxConfigChanges
  /\ LET newConfig ==
           [apiProvider |-> p, apiKeys |-> [config.apiKeys EXCEPT ![p] = k]]
     IN  /\ config' = newConfig
         /\ SetClients(initializeAIClient(newConfig))
         /\ log' = log \cup initializeAIClientLog(newConfig)
  /\ configChanges' = configChanges + 1
  /\ runs' = Retire(runs)
  /\ UNCHANGED <<currentProcessingAbortController,
                 currentExtraProcessingAbortController, aborted, view,
                 problemInfo, hasDebugged, started, pipeline, reply,
                 loading>>

\* ---------------------------------------------------------------- globals
\* The fields of ProcessingHelper and of the application state that a step of
\* a run reads and writes, as one record.
Globals ==
  [cl |-> Clients, view |-> view, pi |-> problemInfo,
   ctl |-> currentProcessingAbortController,
   ectl |-> currentExtraProcessingAbortController, hd |-> hasDebugged,
   log |-> log]

Result(rr, g) == [run |-> rr, g |-> g]

\* the step of run r ends with the run record and globals of res
Commit(r, res) ==
  /\ runs' = [Retire(runs) EXCEPT ![r] = res.run]
  /\ SetClients(res.g.cl)
  /\ view' = res.g.view
  /\ problemInfo' = res.g.pi
  /\ currentProcessingAbortController' = res.g.ctl
  /\ currentExtraProcessingAbortController' = res.g.ectl
  /\ hasDebugged' = res.g.hd
  /\ log' = res.g.log
  /\ loading' = Received(loading, SubSeq(res.run.trace,
                                         Len(runs[r].trace) + 1,
                                         Len(res.run.trace)))
  /\ UNCHANGED <<pipeline, reply>>

Emit(rr, entry) == [rr EXCEPT !.trace = Append(@, entry)]

\* ------------------------------------------------------ provider transports
\* What a provider call can end with.  "blank" is a response whose text is
\* empty (for Gemini: a response without candidates).
Outcomes == {"ok", "blank", "e401", "e429", "eother"}

StatusOf(outcome) ==
  IF outcome = "e401" THEN 401
  ELSE IF outcome = "e429" THEN 429
  ELSE IF outcome = "e500" THEN 500
  ELSE 0

\* Only the axios call of the Gemini branch is given the run's signal; the
\* OpenAI and Anthropic SDK calls are issued without it.
PassesSignal(p) == p = "gemini"

\* The exception a failed call throws.  axios errors carry response.status
\* and are recognised by axios.isCancel when the request was aborted; the
\* SDK errors carry status.
ErrorOf(p, outcome) ==
  IF outcome = "aborted"
  THEN [cancel |-> TRUE, responseStatus |-> 0, status |-> 0,
        message |-> <<"canceled">>]
  ELSE IF p = "gemini"
  THEN [cancel |-> FALSE, responseStatus |-> StatusOf(outcome), status |-> 0,
        message |-> MsgTransport]
  ELSE [cancel |-> FALSE, responseStatus |-> 0, status |-> StatusOf(outcome),
        message |-> MsgTransport]

Thrown(msg) ==
  [cancel |-> FALSE, responseStatus |-> 0, status |-> 0, message |-> msg]

\* ------------------------------------------------- processScreenshots tail
\* processScreenshots, result.success false, then finally
FailureEvent(error) ==
  IF \/ Includes(error, <<"API", "Key">>)
     \/ Includes(error, <<"OpenAI">>)
     \/ Includes(error, <<"Gemini">>)
  THEN Send("API_KEY_INVALID", << >>)
  ELSE Send("INITIAL_SOLUTION_ERROR", error)

\* as ReportFailure, without the finally block
ReportFailureHolding(rr, g, error) ==
  Result([Emit(rr, FailureEvent(error)) EXCEPT !.pc = "done"],
         [g EXCEPT !.view = "queue"])

\* as ReportFailure, without the failure event
ReportFailureSilent(rr, g, error) ==
  Result([rr EXCEPT !.pc = "done"], [g EXCEPT !.view = "queue", !.ctl = 0])

\* as ReportFailure, without the setView("queue") of the failure branch
ReportFailureKeepingView(rr, g, error) ==
  Result([Emit(rr, FailureEvent(error)) EXCEPT !.pc = "done"],
         [g EXCEPT !.ctl = 0])

ReportFailure(rr, g, error) ==
  Result([Emit(rr, FailureEvent(error)) EXCEPT !.pc = "done"],
         [g EXCEPT !.view = "queue", !.ctl = 0])

\* the catch block of processScreenshotsHelper
processScreenshotsCatch(e) ==
  IF e.cancel THEN MsgCanceled
  ELSE IF e.responseStatus = 401 THEN MsgInvalidOpenAIKey
  ELSE IF e.responseStatus = 429 THEN MsgOpenAIRateLimit
  ELSE IF e.responseStatus = 500 THEN MsgOpenAIServerError
  ELSE IF e.message # << >> THEN e.message
  ELSE MsgFailedToProcessRetry

\* the catch block of generateSolutionsHelper
generateSolutionsCatch(e) ==
  IF e.cancel THEN MsgCanceled
  ELSE IF e.responseStatus = 401 THEN MsgInvalidOpenAIKey
  ELSE IF e.responseStatus = 429 THEN MsgOpenAIRateLimit
  ELSE IF e.message # << >> THEN e.message
  ELSE MsgFailedToGenerate

\* generateSolutionsHelper failed with e: processScreenshotsHelper rethrows
\* its message, catches it itself, and processScreenshots reports it
SolutionsError(e) ==
  LET error == generateSolutionsCatch(e)
      rethrown == Thrown(IF error # << >> THEN error
                         ELSE MsgFailedToGenerateSolutions)
  IN  processScreenshotsCatch(rethrown)

SolutionsFailed(rr, g, e) == ReportFailure(rr, g, SolutionsError(e))

\* generateSolutionsHelper sends SOLUTION_SUCCESS and returns; then
\* processScreenshots sends the result again and switches the view
SolutionsSucceeded(rr, g) ==
  LET rr1 == Emit(rr, Send("SOLUTION_SUCCESS", rr.code))
      rr2 == Emit(rr1, Send("SOLUTION_SUCCESS", rr.code))
  IN  Result([rr2 EXCEPT !.pc = "done"],
             [g EXCEPT !.view = "solutions", !.ctl = 0])

\* ------------------------------------------------ generateSolutionsHelper
StageOrder == <<"edge", "think", "approach", "code", "complexity">>

\* as StageEvent, with the events of the first two stages exchanged
StageEventSwapped(stage) ==
  IF stage = "edge" THEN "SOLUTION_THINKING"
  ELSE IF stage = "think" THEN "EDGE_CASES_EXTRACTED"
  ELSE IF stage = "approach" THEN "APPROACH_DEVELOPED"
  ELSE "CODE_GENERATED"

StageEvent(stage) ==
  IF stage = "edge" THEN "EDGE_CASES_EXTRACTED"
  ELSE IF stage = "think" THEN "SOLUTION_THINKING"
  ELSE IF stage = "approach" THEN "APPROACH_DEVELOPED"
  ELSE "CODE_GENERATED"

\* the prompt input of a stage that the model tracks
PromptArg(rr, stage) == IF stage = "complexity" THEN rr.code ELSE << >>

RECURSIVE RunStage(_, _, _, _), AfterStage(_, _, _, _)

\* as AfterStage, going on to the next stage without sending the event
AfterStageUnreported(r, rr, g, k) ==
  IF k = Len(StageOrder)
  THEN SolutionsSucceeded(rr, g)
  ELSE RunStage(r, rr, g, k + 1)

\* Run r stands before the provider branches of stage StageOrder[k].  The
\* branch taken is the one of the apiProvider the helper captured (rr.prov),
\* and only if this.<client> of that provider is set now; otherwise no branch
\* is taken and the stage's result stays empty.
RunStage(r, rr, g, k) ==
  LET stage == StageOrder[k]
  IN  IF ClientOf(g.cl, rr.prov) # Null
      THEN IF PassesSignal(rr.prov) /\ r \in aborted
           THEN SolutionsFailed(Emit(rr, Resp("aborted", rr.prov)), g,
                                ErrorOf(rr.prov, "aborted"))
           ELSE Result([Emit(rr, Call(stage, rr.prov, PromptArg(rr, stage)))
                          EXCEPT !.pc = stage], g)
      ELSE AfterStage(r, rr, g, k)

\* the code after the provider branches of stage StageOrder[k]
AfterStage(r, rr, g, k) ==
  IF k = Len(StageOrder)
  THEN SolutionsSucceeded(rr, g)
  ELSE LET stage == StageOrder[k]
           arg == IF stage = "code" THEN rr.code ELSE << >>
       IN  RunStage(r, Emit(rr, Send(StageEvent(stage), arg)), g, k + 1)

StageIndex(stage) == CHOOSE k \in 1..Len(StageOrder) : StageOrder[k] = stage

\* what a stage's response leaves in finalResponse.code
CodeAfter(rr, stage, outcome) ==
  IF stage = "code"
  THEN IF outcome = "ok" THEN GoodCode ELSE << >>
  ELSE rr.code

\* Stage 1 succeeded: setProblemInfo, PROBLEM_EXTRACTED, then
\* generateSolutionsHelper up to its first provider call
ProblemExtracted(r, rr, g) ==
  LET rr1 == [Emit(rr, Send("PROBLEM_EXTRACTED", << >>))
                EXCEPT !.prov = config.apiProvider, !.code = << >>]
  IN  RunStage(r, rr1, [g EXCEPT !.pi = r], 1)

\* ------------------------------------------------- processScreenshotsHelper
\* processScreenshotsHelper from its start to the Stage 1 provider call
StartExtraction(r, rr, g) ==
  LET p == config.apiProvider
      rr0 == [rr EXCEPT !.prov = p]
  IN  IF p = "openai"
      THEN LET cl1 == IF g.cl.openai = Null THEN initializeAIClient(config)
                      ELSE g.cl
               g1 == [g EXCEPT !.cl = cl1,
                               !.log = IF g.cl.openai = Null
                                       THEN @ \cup initializeAIClientLog(config)
                                       ELSE @]
           IN  IF cl1.openai = Null
               THEN ReportFailure(rr0, g1, MsgOpenAINotConfigured)
               ELSE Result([Emit(rr0, Call("extract", p, << >>))
                              EXCEPT !.pc = "extract"], g1)
      ELSE IF p = "gemini"
      THEN IF g.cl.gemini = Null
           THEN ReportFailure(rr0, g, MsgGeminiNotConfigured)
           ELSE IF r \in aborted
           THEN ReportFailure(Emit(rr0, Resp("aborted", p)), g,
                              MsgGeminiFailed)
           ELSE Result([Emit(rr0, Call("extract", p, << >>))
                          EXCEPT !.pc = "extract"], g)
      ELSE IF g.cl.anthropic = Null
           THEN ReportFailure(rr0, g, MsgAnthropicNotConfigured)
           ELSE Result([Emit(rr0, Call("extract", p, << >>))
                          EXCEPT !.pc = "extract"], g)

\* the Stage 1 call of provider rr.prov ended with outcome
ExtractionResponded(r, rr, g, outcome) ==
  IF outcome = "ok"
  THEN ProblemExtracted(r, rr, g)
  ELSE IF rr.prov = "openai"
  THEN IF outcome = "blank"
       THEN ReportFailure(rr, g, MsgParseFailed)
       ELSE ReportFailure(rr, g,
                          processScreenshotsCatch(ErrorOf(rr.prov, outcome)))
  ELSE IF rr.prov = "gemini"
  THEN ReportFailure(rr, g, MsgGeminiFailed)
  ELSE LET e == IF outcome = "blank" THEN Thrown(MsgJsonSyntax)
                ELSE ErrorOf(rr.prov, outcome)
       IN  IF e.status = 429
           THEN ReportFailure(rr, g, MsgClaudeRateLimit)
           ELSE IF e.status = 413 \/ Includes(e.message, <<"token">>)
           THEN ReportFailure(rr, g, MsgClaudeTooMuch)
           ELSE ReportFailure(rr, g, MsgAnthropicFailed)

\* the call of stage rr.pc of generateSolutionsHelper ended with outcome
StageResponded(r, rr, g, outcome) ==
  IF outcome \in {"ok", "blank"}
  THEN AfterStage(r, [rr EXCEPT !.code = CodeAfter(rr, rr.pc, outcome)], g,
                  StageIndex(rr.pc))
  ELSE SolutionsFailed(rr, g, ErrorOf(rr.prov, outcome))

\* -------------------------------------------- processExtraScreenshotsHelper
\* as ReportDebug, reporting a failure as the main flow reports a failed load:
\* once from the catch block and once more with the message
ReportDebugTwice(rr, g, ok, arg) ==
  IF ok
  THEN Result([Emit(rr, Send("DEBUG_SUCCESS", arg)) EXCEPT !.pc = "done"],
              [g EXCEPT !.hd = TRUE, !.ectl = 0])
  ELSE Result([Emit(Emit(rr, Send("DEBUG_ERROR", arg)),
                    Send("DEBUG_ERROR", arg)) EXCEPT !.pc = "done"],
              [g EXCEPT !.ectl = 0])

\* processScreenshots, debug branch: the helper's result, then finally
ReportDebug(rr, g, ok, arg) ==
  IF ok
  THEN Result([Emit(rr, Send("DEBUG_SUCCESS", arg)) EXCEPT !.pc = "done"],
              [g EXCEPT !.hd = TRUE, !.ectl = 0])
  ELSE Result([Emit(rr, Send("DEBUG_ERROR", arg)) EXCEPT !.pc = "done"],
              [g EXCEPT !.ectl = 0])

\* processExtraScreenshotsHelper from its start to the provider call
StartDebug(r, rr, g) ==
  LET p == config.apiProvider
      rr0 == [rr EXCEPT !.prov = p]
      issued == Result([Emit(rr0, Call("debug", p, << >>))
                          EXCEPT !.pc = "debug"], g)
  IN  IF g.pi = 0
      THEN ReportDebug(rr0, g, FALSE, MsgNoProblemInfo)
      ELSE IF p = "openai"
      THEN IF g.cl.openai = Null
           THEN ReportDebug(rr0, g, FALSE, MsgOpenAINotConfiguredDebug)
           ELSE issued
      ELSE IF p = "gemini"
      THEN IF g.cl.gemini = Null
           THEN ReportDebug(rr0, g, FALSE, MsgGeminiNotConfigured)
           ELSE IF r \in aborted
           THEN ReportDebug(Emit(rr0, Resp("aborted", p)), g, FALSE,
                            MsgGeminiDebugFailed)
           ELSE issued
      ELSE IF g.cl.anthropic = Null
           THEN ReportDebug(rr0, g, FALSE, MsgAnthropicNotConfigured)
           ELSE issued

\* the debug call of provider rr.prov ended with outcome
DebugResponded(r, rr, g, outcome) ==
  LET success(code) == ReportDebug(rr, g, TRUE, code)
  IN  IF rr.prov = "openai"
      THEN IF outcome = "ok" THEN success(GoodCode)
           ELSE IF outcome = "blank" THEN success(DebugPlaceholder)
           ELSE LET e == ErrorOf(rr.prov, outcome)
                IN  ReportDebug(rr, g, FALSE,
                                IF e.message # << >> THEN e.message
                                ELSE MsgFailedDebug)
      ELSE IF rr.prov = "gemini"
      THEN IF outcome = "ok" THEN success(GoodCode)
           ELSE ReportDebug(rr, g, FALSE, MsgGeminiDebugFailed)
      ELSE IF outcome = "ok" THEN success(GoodCode)
           ELSE IF outcome = "blank" THEN success(DebugPlaceholder)
           ELSE LET e == ErrorOf(rr.prov, outcome)
                IN  IF e.status = 429
                    THEN ReportDebug(rr, g, FALSE, MsgClaudeRateLimit)
                    ELSE IF e.status = 413
                            \/ Includes(e.message, <<"token">>)
                    THEN ReportDebug(rr, g, FALSE, MsgClaudeTooMuch)
                    ELSE ReportDebug(rr, g, FALSE, MsgAnthropicDebugFailed)

\* ----------------------------------------------------------------- actions
\* processScreenshots() up to its first await of I/O.  queueOk: the queue of
\* the current view holds a screenshot whose file exists.
processScreenshots(queueOk) ==
  /\ started < MaxRuns
  /\ LET r == started + 1
         p == config.apiProvider
         cl1 == IF ClientOf(Clients, p) = Null
                THEN initializeAIClient(config) ELSE Clients
         g1 == [Globals EXCEPT !.cl = cl1,
                               !.log = IF ClientOf(Clients, p) = Null
                                       THEN @ \cup initializeAIClientLog(config)
                                       ELSE @]
         new(kind) == [NoRun EXCEPT !.kind = kind]
     IN  /\ started' = r
         /\ IF ClientOf(cl1, p) = Null
            THEN Commit(r, Result(
                   [Emit(new("rejected"), Send("API_KEY_INVALID", << >>))
                      EXCEPT !.pc = "done"], g1))
            ELSE IF view = "queue"
            THEN LET rr == Emit(new("main"), Send("INITIAL_START", << >>))
                 IN  IF ~queueOk
                     THEN Commit(r, Result(
                            [Emit(rr, Send("NO_SCREENSHOTS", << >>))
                               EXCEPT !.pc = "done"], g1))
                     ELSE Commit(r, Result([rr EXCEPT !.pc = "loading"],
                                           [g1 EXCEPT !.ctl = r]))
            ELSE IF ~queueOk
                 THEN Commit(r, Result(
                        [Emit(new("debug"), Send("NO_SCREENSHOTS", << >>))
                           EXCEPT !.pc = "done"], g1))
                 ELSE Commit(r, Result(
                        [Emit(new("debug"), Send("DEBUG_START", << >>))
                           EXCEPT !.pc = "loading"],
                        [g1 EXCEPT !.ectl = r]))
  /\ UNCHANGED <<config, aborted, configChanges>>

\* The screenshots of run r are read (the await of Promise.all), and the run
\* goes on to its first provider call.  loadOk: some screenshot was read.
screenshotsLoaded(r, loadOk) ==
  /\ runs[r].pc = "loading"
  /\ LET rr == runs[r]
         g == Globals
     IN  IF rr.kind = "main"
         THEN IF ~loadOk
              THEN \* catch of processScreenshots: the error object, then
                   \* its message, then finally
                   LET rr1 == Emit(rr, Send("INITIAL_SOLUTION_ERROR",
                                            MsgFailedToLoad))
                       rr2 == Emit(rr1, Send("INITIAL_SOLUTION_ERROR",
                                             MsgFailedToLoad))
                   IN  Commit(r, Result([rr2 EXCEPT !.pc = "done"],
                                 [g EXCEPT !.view = "queue", !.ctl = 0]))
              ELSE Commit(r, StartExtraction(r, rr, g))
         ELSE IF ~loadOk
              THEN Commit(r, ReportDebug(rr, g, FALSE, MsgFailedToLoadDebug))
              ELSE Commit(r, StartDebug(r, rr, g))
  /\ UNCHANGED <<config, aborted, started, configChanges>>

\* the provider call run r awaits ends; an aborted axios request ends as
\* cancelled and in no other way
providerResponds(r, outcome) ==
  /\ runs[r].pc \in {"extract", "debug"} \cup
                    {StageOrder[k] : k \in 1..Len(StageOrder)}
  /\ LET out == IF PassesSignal(runs[r].prov) /\ r \in aborted
                THEN "aborted" ELSE outcome
         how == IF out = "aborted" THEN "aborted"
                ELSE IF out \in {"ok", "blank"} THEN "returned"
                ELSE "threw"
         rr == Emit(runs[r], Resp(how, runs[r].prov))
         g == Globals
     IN  IF rr.pc = "extract"
         THEN Commit(r, ExtractionResponded(r, rr, g, out))
         ELSE IF rr.pc = "debug"
         THEN Commit(r, DebugResponded(r, rr, g, out))
         ELSE Commit(r, StageResponded(r, rr, g, out))
  /\ UNCHANGED <<config, aborted, started, configChanges>>

\* the trace of a run whose controller cancelOngoingRequests aborts
Cancelled(rr) ==
  [rr EXCEPT !.trace = Append(@, Send("NO_SCREENSHOTS", << >>)),
             !.cancelledAt = IF @ = 0 THEN Len(rr.trace) + 1 ELSE @]

\* cancelOngoingRequests(); toView is the view afterwards
CancelAll(toView) ==
  LET hit == {currentProcessingAbortController,
              currentExtraProcessingAbortController} \ {0}
  IN  /\ aborted' = aborted \cup hit
      /\ currentProcessingAbortController' = 0
      /\ currentExtraProcessingAbortController' = 0
      /\ hasDebugged' = FALSE
      /\ problemInfo' = 0
      /\ runs' = [r \in RunIds |->
                    IF r \in hit THEN Cancelled(runs[r])
                    ELSE Retire(runs)[r]]
      /\ view' = toView
      /\ UNCHANGED <<config, openaiClient, geminiApiKey, anthropicClient,
                     started, configChanges, log, pipeline, reply,
                     loading>>

cancelOngoingRequests == CancelAll(view)

\* the resetQueues shortcut: cancelOngoingRequests, clearQueues, setView
resetQueues == CancelAll("queue")

\* The whole program: runs, cancellation, reset and configuration changes.
Next ==
  \/ \E p \in Providers, k \in Keys : updateConfig(p, k)
  \/ \E q \in BOOLEAN : processScreenshots(q)
  \/ \E r \in RunIds, ok \in BOOLEAN : screenshotsLoaded(r, ok)
  \/ \E r \in RunIds, o \in Outcomes : providerResponds(r, o)
  \/ cancelOngoingRequests
  \/ resetQueues

Spec == Init /\ [][Next]_vars

\* The program as the shortcuts of shortcuts.ts drive it, the configuration
\* left as it is: processScreenshots and resetQueues, the only caller of
\* cancelOngoingRequests.
NextShortcuts ==
  \/ \E q \in BOOLEAN : processScreenshots(q)
  \/ \E r \in RunIds, ok \in BOOLEAN : screenshotsLoaded(r, ok)
  \/ \E r \in RunIds, o \in Outcomes : providerResponds(r, o)
  \/ resetQueues

\* Reading the screenshots of a run ends, and so does every provider call a
\* run awaits: it returns or it throws.  The awaited steps of the runs are
\* callbacks of one event loop, which runs a callback whenever one is due.
Fairness ==
  WF_vars(\/ \E r \in RunIds, ok \in BOOLEAN : screenshotsLoaded(r, ok)
          \/ \E r \in RunIds, o \in Outcomes : providerResponds(r, o))

SpecShortcuts == Init /\ [][NextShortcuts]_vars /\ Fairness

\* the same program with the Solutions component listening
SpecSolutionsUI == InitMounted /\ [][NextShortcuts]_vars

\* ======================================================================
\* The data of one main run
\* ======================================================================
\* Spec follows a run by the outcomes of its calls.  The specification below
\* follows one main run whose calls all return, by the texts of the
\* responses and by what the helpers make of them.

\* the response of the Gemini API holds no candidates
NoCandidates == <<"(no candidates)">>
NoCall == Call("", "", << >>)

\* the members of a JSON object: a token stands for a name with its value
JsonFields == {"problem_statement", "constraints"}

\* the message of the SyntaxError for a text that is not the beginning of a
\* JSON value (for one that is, it is MsgJsonSyntax)
MsgJsonToken == <<"Unexpected", "token", "in", "JSON">>

RECURSIVE StripFrom(_, _)
\* responseText.replace(/(3 backquotes)json|(3 backquotes)/g, '') from
\* position i on; a json that follows an opening fence is joined to it
StripFrom(s, i) ==
  IF i > Len(s) THEN << >>
  ELSE IF s[i] = Fence
  THEN IF /\ i < Len(s)
          /\ s[i + 1] = "json"
          /\ Cardinality({j \in 1..(i - 1) : s[j] = Fence}) % 2 = 0
       THEN StripFrom(s, i + 2)
       ELSE StripFrom(s, i + 1)
  ELSE <<s[i]>> \o StripFrom(s, i + 1)

StripFences(text) == StripFrom(text, 1)

\* JSON.parse of a token text: null, a number, an empty array, or an object
\* of members; every other text is a SyntaxError
JsonParse(text) ==
  LET t == SelectSeq(text, LAMBDA x : x # NL)
      parsed(v) == [ok |-> TRUE, value |-> v, message |-> << >>]
      opened == t # << >> /\ t[1] = "{"
  IN  IF t = <<"null">> THEN parsed(JsNull)
      ELSE IF t = <<"42">> THEN parsed(JsonValue("number", {}))
      ELSE IF t = <<"[", "]">> THEN parsed(JsonValue("array", {}))
      ELSE IF /\ opened
              /\ Len(t) >= 2
              /\ t[Len(t)] = "}"
              /\ \A i \in 2..(Len(t) - 1) : t[i] \in JsonFields
      THEN parsed(JsonValue("object", {t[i] : i \in 2..(Len(t) - 1)}))
      ELSE [ok |-> FALSE, value |-> JsNull,
            message |-> IF \/ t = << >>
                           \/ opened /\ \A i \in 2..Len(t) : t[i] \in JsonFields
                        THEN MsgJsonSyntax ELSE MsgJsonToken]

\* the Stage 1 responses and the responses of the later stages
Stage1Texts ==
  { <<"{", "problem_statement", "constraints", "}">>,
    <<Fence, "json", NL, "{", "problem_statement", "}", NL, Fence>>,
    <<Fence, NL, "[", "]", NL, Fence>>,
    <<"42">>,
    <<"null">>,
    <<"Sorry", "no", "problem", "found">>,
    <<"{", "problem_statement">>,
    << >> }

StageTexts ==
  { << >>,
    <<"-", "empty", "input", NL, "-", "single", "element">>,
    <<"Use", "a", "hash", "map", ".", "Scan", "once">>,
    <<"-", "use", "map", NL, "Pseudocode:", NL, "1.", "scan", NL, "2.",
      "return">>,
    <<Fence, "python", NL, "def", "solve", NL, Fence>>,
    <<"Time", "Complexity:", "O(n)", "one", "pass", NL, "Space",
      "Complexity:", "O(1)">> }

\* the run returns {success: false, error}; processScreenshots reports it
Failed(c, error) ==
  [c EXCEPT !.at = "done", !.call = NoCall, !.error = error,
            !.events = Append(@, FailureEvent(error))]

IssueCall(c, stage, arg) ==
  [c EXCEPT !.at = stage, !.call = Call(stage, c.prov, arg)]

\* what the provider branch of Stage 1 returns when it could not produce a
\* ProblemInfo, message being the message of the exception
Stage1Failure(prov, message) ==
  IF prov = "openai" THEN MsgParseFailed
  ELSE IF prov = "gemini" THEN MsgGeminiFailed
  ELSE IF Includes(message, <<"token">>) THEN MsgClaudeTooMuch
  ELSE MsgAnthropicFailed

\* processScreenshotsHelper from the Stage 1 response on, and
\* generateSolutionsHelper up to its first call
ExtractProblem(c, text) ==
  LET parsed == JsonParse(Trim(StripFences(text)))
  IN  IF text = NoCandidates
      THEN Failed(c, MsgGeminiFailed)
      ELSE IF ~parsed.ok
      THEN Failed(c, Stage1Failure(c.prov, parsed.message))
      ELSE LET c1 == [c EXCEPT !.stored = parsed.value,
                               !.events = Append(@, Send("PROBLEM_EXTRACTED",
                                                         parsed.value))]
           IN  IF parsed.value = JsNull
               THEN Failed(c1, SolutionsError(Thrown(MsgNoProblemInfo)))
               ELSE IssueCall(c1, "edge", << >>)

EdgeCasesStage(c, text) ==
  LET edgeCases == IF text = NoCandidates THEN c.edgeCases
                   ELSE extractBulletPoints(text)
      c1 == [c EXCEPT !.edgeCases = edgeCases,
                      !.finalResponse.thoughts = edgeCases,
                      !.events = Append(@, Send("EDGE_CASES_EXTRACTED",
                                                [thoughts |-> edgeCases]))]
  IN  IssueCall(c1, "think", << >>)

\* as SolutionThinkingStage, adding the solution thoughts to the thoughts
\* collected so far and sending the sum
SolutionThinkingStageAccumulated(c, text) ==
  LET solutionThoughts == IF text = NoCandidates THEN c.solutionThoughts
                          ELSE extractBulletPoints(text)
      all == c.finalResponse.thoughts \o solutionThoughts
      c1 == [c EXCEPT !.solutionThoughts = solutionThoughts,
                      !.finalResponse.thoughts = all,
                      !.events = Append(@, Send("SOLUTION_THINKING",
                                     [thoughts |-> all,
                                      edgeCases |-> c.edgeCases,
                                      solutionThoughts |-> solutionThoughts]))]
  IN  IssueCall(c1, "approach", << >>)

SolutionThinkingStage(c, text) ==
  LET solutionThoughts == IF text = NoCandidates THEN c.solutionThoughts
                          ELSE extractBulletPoints(text)
      c1 == [c EXCEPT !.solutionThoughts = solutionThoughts,
                      !.events = Append(@, Send("SOLUTION_THINKING",
                                     [thoughts |-> solutionThoughts,
                                      edgeCases |-> c.edgeCases,
                                      solutionThoughts |-> solutionThoughts]))]
  IN  IssueCall(c1, "approach", << >>)

\* as ApproachStage, a response without pseudocode being an error
ApproachStageStrict(c, text) ==
  LET thoughts == IF text = NoCandidates THEN c.thoughts
                  ELSE extractBulletPoints(text)
      pseudoCode == IF text = NoCandidates THEN c.pseudoCode
                    ELSE extractPseudoCode(text)
      c1 == [c EXCEPT !.thoughts = thoughts,
                      !.pseudoCode = pseudoCode,
                      !.finalResponse.thoughts =
                         c.edgeCases \o c.solutionThoughts \o thoughts,
                      !.events = Append(@, Send("APPROACH_DEVELOPED",
                                     [thoughts |-> thoughts,
                                      pseudo_code |-> pseudoCode]))]
  IN  IF pseudoCode = << >>
      THEN Failed(c, SolutionsError(Thrown(MsgFailedToGenerate)))
      ELSE IssueCall(c1, "code", pseudoCode)

\* as ApproachStage, with the approach thoughts put first in the combined list
ApproachStageReordered(c, text) ==
  LET thoughts == IF text = NoCandidates THEN c.thoughts
                  ELSE extractBulletPoints(text)
      pseudoCode == IF text = NoCandidates THEN c.pseudoCode
                    ELSE extractPseudoCode(text)
      c1 == [c EXCEPT !.thoughts = thoughts,
                      !.pseudoCode = pseudoCode,
                      !.finalResponse.thoughts =
                         thoughts \o c.edgeCases \o c.solutionThoughts,
                      !.events = Append(@, Send("APPROACH_DEVELOPED",
                                     [thoughts |-> thoughts,
                                      pseudo_code |-> pseudoCode]))]
  IN  IssueCall(c1, "code", pseudoCode)

ApproachStage(c, text) ==
  LET thoughts == IF text = NoCandidates THEN c.thoughts
                  ELSE extractBulletPoints(text)
      pseudoCode == IF text = NoCandidates THEN c.pseudoCode
                    ELSE extractPseudoCode(text)
      c1 == [c EXCEPT !.thoughts = thoughts,
                      !.pseudoCode = pseudoCode,
                      !.finalResponse.thoughts =
                         c.edgeCases \o c.solutionThoughts \o thoughts,
                      !.events = Append(@, Send("APPROACH_DEVELOPED",
                                     [thoughts |-> thoughts,
                                      pseudo_code |-> pseudoCode]))]
  IN  IssueCall(c1, "code", pseudoCode)

CodeStage(c, text) ==
  LET code == IF text = NoCandidates THEN c.finalResponse.code
              ELSE extractCodeBlock(text)
      c1 == [c EXCEPT !.finalResponse.code = code,
                      !.events = Append(@, Send("CODE_GENERATED",
                                     [thoughts |-> c.finalResponse.thoughts,
                                      code |-> code]))]
  IN  IssueCall(c1, "complexity", code)

\* the complexity stage, the end of generateSolutionsHelper and the end of
\* processScreenshots
ComplexityStage(c, text) ==
  LET complexities == extractComplexity(text)
      fr == IF text = NoCandidates THEN c.finalResponse
            ELSE [c.finalResponse EXCEPT
                    !.time_complexity = complexities.time,
                    !.space_complexity = complexities.space]
  IN  [c EXCEPT !.finalResponse = fr, !.at = "done", !.call = NoCall,
                !.events = @ \o <<Send("SOLUTION_SUCCESS", fr),
                                  Send("SOLUTION_SUCCESS", fr)>>]

\* a main run reaches its Stage 1 call
extractionStarts ==
  /\ pipeline.at = "idle"
  /\ ClientOf(Clients, config.apiProvider) # Null
  /\ pipeline' = IssueCall([pipeline EXCEPT !.prov = config.apiProvider],
                           "extract", << >>)
  /\ UNCHANGED <<config, openaiClient, geminiApiKey, anthropicClient,
                 currentProcessingAbortController,
                 currentExtraProcessingAbortController, aborted, view,
                 problemInfo, hasDebugged, runs, started, configChanges, log,
                 reply, loading>>

\* the Stage 1 call returns a response with text
extractionResponds(text) ==
  /\ pipeline.at = "extract"
  /\ text = NoCandidates => pipeline.prov = "gemini"
  /\ pipeline' = ExtractProblem([pipeline EXCEPT !.responseText = text], text)
  /\ UNCHANGED <<config, openaiClient, geminiApiKey, anthropicClient,
                 currentProcessingAbortController,
                 currentExtraProcessingAbortController, aborted, view,
                 problemInfo, hasDebugged, runs, started, configChanges, log,
                 reply, loading>>

\* the call of a later stage returns a response with text
stageResponds(text) ==
  /\ pipeline.at \in {StageOrder[k] : k \in 1..Len(StageOrder)}
  /\ text = NoCandidates => pipeline.prov = "gemini"
  /\ LET c == [pipeline EXCEPT !.responseText = text]
     IN  pipeline' =
           IF c.at = "edge" THEN EdgeCasesStage(c, text)
           ELSE IF c.at = "think" THEN SolutionThinkingStage(c, text)
           ELSE IF c.at = "approach" THEN ApproachStage(c, text)
           ELSE IF c.at = "code" THEN CodeStage(c, text)
           ELSE ComplexityStage(c, text)
  /\ UNCHANGED <<config, openaiClient, geminiApiKey, anthropicClient,
                 currentProcessingAbortController,
                 currentExtraProcessingAbortController, aborted, view,
                 problemInfo, hasDebugged, runs, started, configChanges, log,
                 reply, loading>>

NextPipeline ==
  \/ extractionStarts
  \/ \E text \in Stage1Texts \cup {NoCandidates} : extractionResponds(text)
  \/ \E text \in StageTexts \cup {NoCandidates} : stageResponds(text)

SpecPipeline == Init /\ [][NextPipeline]_vars

\* ======================================================================
\* The helpers that read a response
\* ======================================================================
\* The specification below takes one response text and applies to it the
\* helpers of generateSolutionsHelper or the result construction of
\* processExtraScreenshotsHelper.

MaxTextLen == 4
MaxLines == 6
MaxComplexityLines == 3

\* the tokens of the short texts
Tokens ==
  {NL, Fence, "-", "1.", ".", "x", "c++", "Time:", "Space:", "O(1)"}

\* the lines of the long texts
LineShapes == {<<"x">>, <<"-", "x">>, <<"-", "improvements">>}

\* the token after each opening fence is a word, a tag, a fence or a newline
Admissible(s) ==
  \A i \in 1..(Len(s) - 1) :
    (s[i] = Fence /\ Cardinality({j \in 1..i : s[j] = Fence}) % 2 = 1) =>
      \/ s[i + 1] \in {NL, Fence} \cup SymbolTags
      \/ IsWord(s[i + 1])

ShortTexts ==
  {s \in UNION {[1..n -> Tokens] : n \in 0..MaxTextLen} : Admissible(s)}

LineTexts ==
  {JoinLines(ls) : ls \in UNION {[1..n -> LineShapes] : n \in 1..MaxLines}}

\* the lines of a complexity analysis: a label with its text, bare or as an
\* item of a numbered list, and a line without a label
ComplexityLines ==
  {<<"Time:", "O(1)">>, <<"Time", "Complexity:", "O(n)", "because", "x">>,
   <<"Space:", "O(1)", "-", "x">>, <<"1.", "Time:", "O(n)">>,
   <<"2.", "Space:", "O(1)">>, <<"x">>}

\* complexity analyses, with and without a newline after the last line
ComplexityTexts ==
  LET bodies == {JoinLines(ls) :
                   ls \in UNION {[1..n -> ComplexityLines] :
                                   n \in 1..MaxComplexityLines}}
  IN  bodies \cup {Append(b, NL) : b \in bodies}

ResponseTexts == ShortTexts \cup LineTexts \cup ComplexityTexts

\* a call of the configured provider, whose client is set, returns a
\* response with text
responseReceived(text) ==
  /\ reply.at = "idle"
  /\ ClientOf(Clients, config.apiProvider) # Null
  /\ reply' = [reply EXCEPT !.at = "text", !.responseText = text]
  /\ UNCHANGED <<config, openaiClient, geminiApiKey, anthropicClient,
                 currentProcessingAbortController,
                 currentExtraProcessingAbortController, aborted, view,
                 problemInfo, hasDebugged, runs, started, configChanges, log,
                 pipeline, loading>>

\* generateSolutionsHelper reads the response with its four helpers
solutionHelpersApplied ==
  /\ reply.at = "text"
  /\ reply' = [reply EXCEPT
                  !.at = "solution",
                  !.thoughts = extractBulletPoints(reply.responseText),
                  !.pseudoCode = extractPseudoCode(reply.responseText),
                  !.code = extractCodeBlock(reply.responseText),
                  !.complexity = extractComplexity(reply.responseText)]
  /\ UNCHANGED <<config, openaiClient, geminiApiKey, anthropicClient,
                 currentProcessingAbortController,
                 currentExtraProcessingAbortController, aborted, view,
                 problemInfo, hasDebugged, runs, started, configChanges, log,
                 pipeline, loading>>

\* processExtraScreenshotsHelper builds its result from the response
debugResponseBuilt ==
  /\ reply.at = "text"
  /\ reply' = [reply EXCEPT
                  !.at = "debug",
                  !.response = DebugResponse(reply.responseText)]
  /\ UNCHANGED <<config, openaiClient, geminiApiKey, anthropicClient,
                 currentProcessingAbortController,
                 currentExtraProcessingAbortController, aborted, view,
                 problemInfo, hasDebugged, runs, started, configChanges, log,
                 pipeline, loading>>

NextHelpers ==
  \/ \E text \in ResponseTexts : responseReceived(text)
  \/ solutionHelpersApplied
  \/ debugResponseBuilt

SpecHelpers == Init /\ [][NextHelpers]_vars

\* ======================================================================
\* Properties
\* ======================================================================
\* the place of a UI event in the stage order of a main run; 0 for the others
StageRank(ev) ==
  IF ev = "PROBLEM_EXTRACTED" THEN 1
  ELSE IF ev = "EDGE_CASES_EXTRACTED" THEN 2
  ELSE IF ev = "SOLUTION_THINKING" THEN 3
  ELSE IF ev = "APPROACH_DEVELOPED" THEN 4
  ELSE IF ev = "CODE_GENERATED" THEN 5
  ELSE IF ev = "SOLUTION_SUCCESS" THEN 6
  ELSE 0

IsSend(e) == e.t = "send"
IsCall(e) == e.t = "call"
IsStageEvent(e) == IsSend(e) /\ StageRank(e.name) > 0
MainRuns == {r \in RunIds : runs[r].kind = "main"}
\* the entries of a run's trace that follow its cancellation
AfterCancel(rr) == {i \in 1..Len(rr.trace) : i > rr.cancelledAt}
\* the run was cancelled while one of its provider calls was in flight
CancelledInCall(rr) ==
  rr.cancelledAt > 1 /\ IsCall(rr.trace[rr.cancelledAt - 1])

\* C1: in every main run the stage events are sent in stage order: an event
\* is sent only after the event of the stage before it, and never after the
\* event of a later stage.
C1_StageOrder ==
  \A r \in MainRuns :
    LET tr == runs[r].trace
    IN  \A j \in 1..Len(tr) :
          IsStageEvent(tr[j]) =>
            /\ StageRank(tr[j].name) > 1 =>
                 \E i \in 1..(j - 1) :
                    /\ IsSend(tr[i])
                    /\ StageRank(tr[i].name) = StageRank(tr[j].name) - 1
            /\ \A i \in 1..(j - 1) :
                 IsSend(tr[i]) => StageRank(tr[i].name) <= StageRank(tr[j].name)

\* a main run has called the provider in every stage and has sent the events
\* of all six stages
C1_Witness ==
  \E r \in MainRuns :
    LET tr == runs[r].trace
    IN  /\ \A k \in 1..6 :
             \E i \in 1..Len(tr) : IsSend(tr[i]) /\ StageRank(tr[i].name) = k
        /\ \A k \in 1..Len(StageOrder) :
             \E i \in 1..Len(tr) : IsCall(tr[i]) /\ tr[i].name = StageOrder[k]

\* C2: once cancelOngoingRequests has hit a main run, the run issues no
\* further provider call and sends no further stage event.
C2_NoStageAfterCancel ==
  \A r \in MainRuns :
    runs[r].cancelledAt > 0 =>
      \A i \in AfterCancel(runs[r]) :
        ~IsCall(runs[r].trace[i]) /\ ~IsStageEvent(runs[r].trace[i])

\* C3: a cancelled run shows the UI one cancellation signal and afterwards
\* no SOLUTION_SUCCESS, INITIAL_SOLUTION_ERROR or API_KEY_INVALID.
C3_SingleCancelSignal ==
  \A r \in RunIds :
    runs[r].cancelledAt > 0 =>
      \A i \in AfterCancel(runs[r]) :
        IsSend(runs[r].trace[i]) =>
          runs[r].trace[i].name \notin
            {"SOLUTION_SUCCESS", "INITIAL_SOLUTION_ERROR", "API_KEY_INVALID",
             "NO_SCREENSHOTS"}

\* C4: a provider call that is in flight when its run is cancelled ends as
\* aborted, whichever provider serves it.
C4_AbortReachesCall ==
  \A r \in RunIds :
    LET rr == runs[r]
    IN  (CancelledInCall(rr) /\ Len(rr.trace) > rr.cancelledAt) =>
          rr.trace[rr.cancelledAt + 1] = Resp("aborted", rr.prov)

\* C5: when a provider call ends as aborted, what the run reports is the
\* cancellation message and nothing else, at every stage.
C5_AbortClassifiedCancelled ==
  \A r \in RunIds :
    LET tr == runs[r].trace
    IN  \A i \in 1..Len(tr) :
          (tr[i].t = "resp" /\ tr[i].name = "aborted") =>
            \A j \in (i + 1)..Len(tr) :
              IsSend(tr[j]) =>
                /\ tr[j].name \in {"INITIAL_SOLUTION_ERROR", "DEBUG_ERROR"}
                /\ tr[j].arg = MsgCanceled

\* C6: a main run cancelled before PROBLEM_EXTRACTED has, when it returns,
\* sent one cancellation event and no stage event, and stored no ProblemInfo.
C6_CancelBeforeExtraction ==
  \A r \in MainRuns :
    LET rr == runs[r]
        tr == rr.trace
    IN  ( /\ rr.pc = "done"
          /\ rr.cancelledAt > 0
          /\ \A i \in 1..rr.cancelledAt : ~IsStageEvent(tr[i]) ) =>
          /\ Cardinality({i \in 1..Len(tr) :
                            tr[i] = Send("NO_SCREENSHOTS", << >>)}) = 1
          /\ \A i \in 1..Len(tr) : ~IsStageEvent(tr[i])
          /\ problemInfo # r

\* C7: a step that aborts the token of one flow neither aborts the token of
\* the other flow nor changes the other flow's context (the ProblemInfo of
\* the main flow, the hasDebugged flag of the debug flow).
C7_CancelIsolated ==
  [][ LET newly == aborted' \ aborted
          m == currentProcessingAbortController
          d == currentExtraProcessingAbortController
      IN  /\ (d # 0 /\ d \in newly) =>
                (m \notin newly /\ problemInfo' = problemInfo)
          /\ (m # 0 /\ m \in newly) =>
                (d \notin newly /\ hasDebugged' = hasDebugged) ]_vars

\* C8: an invocation of processScreenshots under an empty credential of the
\* selected provider returns at once with API_KEY_INVALID: no provider call,
\* no stage event.
C8_EmptyCredentialRejected ==
  [][ (started' # started /\ config.apiKeys[config.apiProvider] = << >>) =>
        /\ runs'[started'].pc = "done"
        /\ runs'[started'].trace = <<Send("API_KEY_INVALID", << >>)>>
        /\ view' = view /\ problemInfo' = problemInfo ]_vars

\* an invocation was rejected while the selected provider has no credential
C8_Witness ==
  \E r \in RunIds :
    /\ runs[r].kind = "rejected"
    /\ runs[r].trace = <<Send("API_KEY_INVALID", << >>)>>
    /\ config.apiKeys[config.apiProvider] = << >>

\* C9: all provider calls of a main run go to one provider, and no stage of
\* the run is passed over: each stage event follows the call of its stage.
C9_RunKeepsClient ==
  \A r \in MainRuns :
    LET tr == runs[r].trace
    IN  /\ \A i, j \in 1..Len(tr) :
             (IsCall(tr[i]) /\ IsCall(tr[j])) => tr[i].prov = tr[j].prov
        /\ \A j \in 1..Len(tr) :
             (IsStageEvent(tr[j]) /\ StageRank(tr[j].name) > 1) =>
               \E i \in 1..(j - 1) :
                 /\ IsCall(tr[i])
                 /\ tr[i].name = StageOrder[StageRank(tr[j].name) - 1]

\* C10: the provider call of the complexity stage carries a non-empty code.
C10_ComplexityGetsCode ==
  \A r \in RunIds :
    \A i \in 1..Len(runs[r].trace) :
      (IsCall(runs[r].trace[i]) /\ runs[r].trace[i].name = "complexity") =>
        runs[r].trace[i].arg # << >>

\* C11: SOLUTION_SUCCESS is never sent with an empty code.
C11_SuccessHasCode ==
  \A r \in RunIds :
    \A i \in 1..Len(runs[r].trace) :
      (IsSend(runs[r].trace[i]) /\ runs[r].trace[i].name = "SOLUTION_SUCCESS")
        => runs[r].trace[i].arg # << >>

\* C12: a main run sends each of its stage events, SOLUTION_SUCCESS included,
\* at most once.
C12_EventsOnce ==
  \A r \in MainRuns :
    LET tr == runs[r].trace
    IN  \A i, j \in 1..Len(tr) :
          (IsStageEvent(tr[i]) /\ IsStageEvent(tr[j])
             /\ tr[i].name = tr[j].name) => i = j

\* the entries of a trace that are provider calls of the stages that follow
\* the extraction
IsStageCall(e) ==
  IsCall(e) /\ \E k \in 1..Len(StageOrder) : e.name = StageOrder[k]

\* the event a run sends when the response of a call has been processed
EventOfCall(name) ==
  IF name = "extract" THEN "PROBLEM_EXTRACTED" ELSE StageEvent(name)

\* C16: the provider calls of a run are sequential: between two calls of a
\* run lie the response to the earlier call and, after the response, the
\* event of the earlier call's stage.
C16_StagesSequential ==
  \A r \in RunIds :
    LET tr == runs[r].trace
    IN  \A i, j \in 1..Len(tr) :
          (i < j /\ IsCall(tr[i]) /\ IsCall(tr[j])) =>
            \E m \in (i + 1)..(j - 1) :
              /\ tr[m].t = "resp"
              /\ \E n \in (m + 1)..(j - 1) :
                    tr[n] = Send(EventOfCall(tr[i].name), tr[n].arg)

\* a run has issued the calls of all six stages, each answered before the
\* next was issued, and has returned
C16_Witness ==
  \E r \in MainRuns :
    LET tr == runs[r].trace
    IN  /\ runs[r].pc = "done"
        /\ Cardinality({i \in 1..Len(tr) : IsCall(tr[i])}) = 6
        /\ Cardinality({i \in 1..Len(tr) : tr[i].t = "resp"}) = 6

\* the response at position i of a trace answers a call of a stage after the
\* extraction and is not usable: the call threw or was aborted, or the
\* code-generation call returned a response that holds no code
Unusable(rr, i) ==
  /\ i > 1
  /\ rr.trace[i].t = "resp"
  /\ IsStageCall(rr.trace[i - 1])
  /\ \/ rr.trace[i].name # "returned"
     \/ rr.trace[i - 1].name = "code" /\ rr.code = << >>

\* C14: when the call of a stage after the extraction fails or yields no
\* usable response, the run sends no further stage event and no
\* SOLUTION_SUCCESS.
C14_FailureAborts ==
  \A r \in MainRuns :
    \A i \in 1..Len(runs[r].trace) :
      Unusable(runs[r], i) =>
        \A j \in (i + 1)..Len(runs[r].trace) : ~IsStageEvent(runs[r].trace[j])

\* C15: when a main run issues its Stage 1 call while no other run is in
\* progress, no ProblemInfo is stored: what an earlier run left has been
\* cleared.
C15_FreshContext ==
  [][ \A r \in MainRuns :
        ( /\ runs[r].pc = "loading"
          /\ runs'[r].pc = "extract"
          /\ \A q \in RunIds \ {r} : runs[q].pc \in {"idle", "done", "gone"} )
        => problemInfo' = 0 ]_vars

\* C19: a main run reports API_KEY_INVALID only for a failure of the
\* credential: not when the provider call it made last returned a response.
C19_FailureClassKept ==
  \A r \in MainRuns :
    LET tr == runs[r].trace
    IN  \A j \in 2..Len(tr) :
          (tr[j - 1].t = "resp" /\ tr[j - 1].name = "returned") =>
            tr[j] # Send("API_KEY_INVALID", << >>)

\* C20: no line written to the console contains an API key.
C20_NoCredentialLogged ==
  \A line \in log : \A k \in Keys \ {<< >>} : ~Includes(line, k)

\* the Stage 1 response text, its fences stripped, is a JSON object
IsJsonObject(text) ==
  LET parsed == JsonParse(Trim(StripFences(text)))
  IN  text # NoCandidates /\ parsed.ok /\ parsed.value.kind = "object"

Sent(c, ev) == \E i \in 1..Len(c.events) : c.events[i].name = ev
LastEvent(c) == c.events[Len(c.events)]

\* C13: when the Stage 1 response, its fences stripped, is not a JSON
\* object, the run has failed: no ProblemInfo is stored, PROBLEM_EXTRACTED is
\* not sent and no later stage is called, whichever the provider.
C13_ParseFailureTerminal ==
  (pipeline.at \notin {"idle", "extract"}
     /\ ~IsJsonObject(pipeline.responseText)) =>
       /\ pipeline.at = "done"
       /\ pipeline.error # << >>
       /\ pipeline.stored = JsNull
       /\ ~Sent(pipeline, "PROBLEM_EXTRACTED")

\* C17: when the response of the approach stage holds no pseudocode, the
\* run sends APPROACH_DEVELOPED with an empty pseudo_code and issues the
\* code-generation call with the empty pseudocode in its prompt.
C17_EmptyPseudoCodeAccepted ==
  [][ ( /\ pipeline.at = "approach"
        /\ pipeline'.at # "approach"
        /\ pipeline'.responseText # NoCandidates
        /\ extractPseudoCode(pipeline'.responseText) = << >> ) =>
          /\ pipeline'.at = "code"
          /\ pipeline'.error = << >>
          /\ Len(pipeline'.events) = Len(pipeline.events) + 1
          /\ LastEvent(pipeline').name = "APPROACH_DEVELOPED"
          /\ LastEvent(pipeline').arg.pseudo_code = << >>
          /\ pipeline'.call = Call("code", pipeline.prov, << >>) ]_vars

\* the approach stage answered with a text that holds no pseudocode, and the
\* code-generation call is in flight
C17_Witness ==
  /\ pipeline.at = "code"
  /\ pipeline.responseText \notin {NoCandidates, << >>}
  /\ extractPseudoCode(pipeline.responseText) = << >>
  /\ LastEvent(pipeline).name = "APPROACH_DEVELOPED"
  /\ pipeline.call = Call("code", pipeline.prov, << >>)

\* C18: EDGE_CASES_EXTRACTED carries the list extracted from the edge-case
\* response; the thoughts of SOLUTION_THINKING are the list extracted from
\* the solution-thinking response and nothing else; the solution-thinking
\* stage leaves the edge-case list as it was.
C18_ThoughtsKeptSeparate ==
  [][ LET text == pipeline'.responseText
      IN  /\ (pipeline.at = "edge" /\ pipeline'.at # "edge") =>
                /\ LastEvent(pipeline') =
                     Send("EDGE_CASES_EXTRACTED",
                          [thoughts |-> pipeline'.edgeCases])
                /\ text # NoCandidates =>
                     pipeline'.edgeCases = extractBulletPoints(text)
          /\ (pipeline.at = "think" /\ pipeline'.at # "think") =>
                /\ LastEvent(pipeline').name = "SOLUTION_THINKING"
                /\ LastEvent(pipeline').arg.thoughts =
                     pipeline'.solutionThoughts
                /\ text # NoCandidates =>
                     pipeline'.solutionThoughts = extractBulletPoints(text)
                /\ pipeline'.edgeCases = pipeline.edgeCases ]_vars

\* both stages have answered with lists that are not empty and differ, and
\* the solution-thinking event has been sent
C18_Witness ==
  /\ pipeline.at = "approach"
  /\ pipeline.edgeCases # << >>
  /\ pipeline.solutionThoughts # << >>
  /\ pipeline.edgeCases # pipeline.solutionThoughts
  /\ LastEvent(pipeline).name = "SOLUTION_THINKING"

\* ---------------------------------------------------------------- C21
\* C21: in every reachable state at most one of openaiClient, geminiApiKey
\* and anthropicClient is set, a client that is set is the one of the
\* configured provider, and all three are null when the configured provider's
\* key is empty.
C21_SingleClient ==
  /\ Cardinality({p \in Providers : ClientOf(Clients, p) # Null}) <= 1
  /\ \A p \in Providers :
       ClientOf(Clients, p) # Null => p = config.apiProvider
  /\ config.apiKeys[config.apiProvider] = << >> =>
       \A p \in Providers : ClientOf(Clients, p) = Null

\* the provider was switched while the former provider's key stays stored, and
\* the client of the new provider is the only one set
C21_Witness ==
  /\ configChanges = 1
  /\ ClientOf(Clients, config.apiProvider) # Null
  /\ \E q \in Providers \ {config.apiProvider} :
       /\ config.apiKeys[q] # << >>
       /\ <<"config.apiProvider", q>> \in log
       /\ ClientOf(Clients, q) = Null

C23_TokenReleased ==
  [][/\ \A r \in RunIds :
          (runs[r].pc \notin {"idle", "done"} /\ runs'[r].pc = "done") =>
            IF runs[r].kind = "main"
            THEN currentProcessingAbortController' = 0
            ELSE currentExtraProcessingAbortController' = 0
     /\ aborted' # aborted =>
          /\ currentProcessingAbortController' = 0
          /\ currentExtraProcessingAbortController' = 0]_vars

\* a main run ended on a provider call that threw, and both controller
\* fields are null
C23_Witness ==
  /\ currentProcessingAbortController = 0
  /\ currentExtraProcessingAbortController = 0
  /\ \E r \in RunIds :
       /\ runs[r].kind = "main"
       /\ runs[r].pc = "done"
       /\ \E i \in 1..Len(runs[r].trace) :
            runs[r].trace[i] = Resp("threw", runs[r].prov)

\* ---------------------------------------------------------------- C24
\* the positions of the events named in evs in a trace
SentAt(tr, evs) ==
  {i \in 1..Len(tr) : IsSend(tr[i]) /\ tr[i].name \in evs}

\* C24: a run sends DEBUG_START at most once; it sends at most one of
\* DEBUG_SUCCESS and DEBUG_ERROR, and only after its DEBUG_START; and a run
\* that has returned after DEBUG_START has sent exactly one of the two.
C24_DebugEvents ==
  \A r \in RunIds :
    LET starts == SentAt(runs[r].trace, {"DEBUG_START"})
        results == SentAt(runs[r].trace, {"DEBUG_SUCCESS", "DEBUG_ERROR"})
    IN  /\ Cardinality(starts) <= 1
        /\ Cardinality(results) <= 1
        /\ \A i \in results : \E j \in starts : j < i
        /\ (runs[r].pc = "done" /\ starts # {}) => results # {}

\* a debug run was cancelled during its provider call and has returned with
\* its one result event
C24_Witness ==
  \E r \in RunIds :
    /\ runs[r].kind = "debug"
    /\ runs[r].pc = "done"
    /\ runs[r].cancelledAt # 0
    /\ \E i \in 1..Len(runs[r].trace) :
         IsCall(runs[r].trace[i]) /\ i < runs[r].cancelledAt
    /\ SentAt(runs[r].trace, {"DEBUG_START"}) # {}
    /\ Cardinality(SentAt(runs[r].trace,
                          {"DEBUG_SUCCESS", "DEBUG_ERROR"})) = 1

\* ------------------------------------------------------------ C25 .. C27
\* the language tag of the first block: the token on the line of the opening
\* fence, when there is one
HasTag(text) ==
  LET t == text[OpenFence(text) + 1]
  IN  t \in SymbolTags \/ IsWord(t)

\* the inner text of the first fenced block: what stands between the line
\* of the opening fence and the closing fence
InnerText(text) ==
  SubSeq(text, OpenFence(text) + (IF HasTag(text) THEN 2 ELSE 1),
         CloseFence(text) - 1)

\* C25: the result built from a debug response has as code the trimmed inner
\* text of the first fenced block (the placeholder too when the block is
\* empty) or the placeholder when the response has no block, at most five
\* thoughts, and the two fixed complexity strings.
C25_DebugResult ==
  reply.at = "debug" =>
    LET text == reply.responseText
        r == reply.response
    IN  /\ IF HasBlock(text)
           THEN \/ r.code = Trim(InnerText(text))
                \/ InnerText(text) = << >> /\ r.code = DebugPlaceholder
           ELSE r.code = DebugPlaceholder
        /\ Len(r.thoughts) <= 5
        /\ r.time_complexity = DebugComplexity
        /\ r.space_complexity = DebugComplexity

\* C26: for a response that holds a fenced block, extractCodeBlock returns
\* the trimmed inner text of the first block, whatever tag follows the
\* opening fence.
C26_CodeBlockInnerText ==
  (reply.at = "solution" /\ HasBlock(reply.responseText)) =>
    reply.code = Trim(InnerText(reply.responseText))

\* C27: for a response that holds no fenced block, extractPseudoCode returns
\* the empty string and extractCodeBlock the trimmed response.
C27_NoBlock ==
  (reply.at = "solution" /\ ~HasBlock(reply.responseText)) =>
    /\ reply.pseudoCode = << >>
    /\ reply.code = Trim(reply.responseText)

\* ------------------------------------------------------------ C28, C29
RECURSIVE LineContents(_, _)
\* for each line from the line start a on that begins with a bullet or a
\* number, what follows the marker on that line
LineContents(s, a) ==
  LET e == LineEnd(s, a)
      here == IF a <= Len(s) /\ s[a] \in Bullets \cup Numbers
              THEN <<SubSeq(s, a + 1, e - 1)>>
              ELSE << >>
  IN  here \o (IF e > Len(s) THEN << >> ELSE LineContents(s, e + 1))

\* C28: for a text with lines that begin with a bullet or a number,
\* extractBulletPoints returns what follows the marker on each such line, in
\* the order of the lines (a line with nothing after its marker gives no
\* entry).
C28_BulletLines ==
  (reply.at = "solution" /\ LineContents(reply.responseText, 1) # << >>) =>
    reply.thoughts = NonEmpty(LineContents(reply.responseText, 1))

\* C29: for a text without a line that begins with a bullet or a number,
\* extractBulletPoints returns at most five fragments, none of them empty:
\* the first ones, in order, of the split of the text at sentence ends and
\* newlines.
C29_SentenceFragments ==
  (reply.at = "solution" /\ LineContents(reply.responseText, 1) = << >>) =>
    LET sentences == NonEmpty(SplitFrom(reply.responseText, 1, << >>))
    IN  /\ Len(reply.thoughts) <= 5
        /\ Len(reply.thoughts) <= Len(sentences)
        /\ Len(sentences) <= 5 => Len(reply.thoughts) = Len(sentences)
        /\ \A i \in 1..Len(reply.thoughts) :
             reply.thoughts[i] # << >> /\ reply.thoughts[i] = sentences[i]

\* a text of six lines without a marker was read, and five fragments were
\* returned
C29_Witness ==
  /\ reply.at = "solution"
  /\ LineContents(reply.responseText, 1) = << >>
  /\ Len(NonEmpty(SplitFrom(reply.responseText, 1, << >>))) = 6
  /\ Len(reply.thoughts) = 5

AsClaimed(captured) ==
  LET i == Min({j \in 1..Len(captured) : captured[j] \in BigO})
  IN  IF \E j \in 1..Len(captured) : captured[j] \in {"-", "because"}
      THEN Trim(captured)
      ELSE <<captured[i], "-">> \o
           Trim(SubSeq(captured, 1, i - 1) \o
                SubSeq(captured, i + 1, Len(captured)))

HasBigO(captured) == \E j \in 1..Len(captured) : captured[j] \in BigO

\* C31: a captured complexity text that holds Big-O notation is returned
\* trimmed and otherwise unchanged when it also holds a hyphen or the word
\* because; if not, the Big-O token is returned first, then a hyphen, then
\* the rest of the text.
C31_BigOFormatting ==
  reply.at = "solution" =>
    LET t == TimeMatch(reply.responseText, 1)
        sp == SpaceMatch(reply.responseText, 1)
    IN  /\ HasBigO(t) => reply.complexity.time = AsClaimed(t)
        /\ HasBigO(sp) => reply.complexity.space = AsClaimed(sp)

\* one analysis gave both cases: a time text with because, kept as it is,
\* and a bare O(1) for the space, returned as the token and a hyphen
C31_Witness ==
  /\ reply.at = "solution"
  /\ reply.complexity.time = <<"O(n)", "because", "x">>
  /\ reply.complexity.space = <<"O(1)", "-">>

\* ---------------------------------------------------------------- C32
\* the response holds a time label with text after it on its line
TimeLabelled(text) ==
  \E i \in 1..Len(text) :
    /\ text[i] \in TimeLabels
    /\ LET k == IF i < Len(text) /\ text[i + 1] \in ComplexityLabels
                THEN i + 2 ELSE i + 1
       IN  k <= Len(text) /\ text[k] # NL

\* C32: when the response holds a time label followed by text, the time
\* field is not the default of an absent field and holds nothing of the
\* space label's section.
C32_TimeSpan ==
  (reply.at = "solution" /\ TimeLabelled(reply.responseText)) =>
    /\ reply.complexity.time # ComplexityNotAvailable
    /\ \A j \in 1..Len(reply.complexity.time) :
         reply.complexity.time[j] \notin SpaceLabels

\* ---------------------------------------------------------------- C33
\* C33: the thoughts that CODE_GENERATED and SOLUTION_SUCCESS carry are the
\* edge-case list, then the solution-thinking list, then the approach
\* thoughts of the run.
C33_CombinedThoughts ==
  \A i \in 1..Len(pipeline.events) :
    pipeline.events[i].name \in {"CODE_GENERATED", "SOLUTION_SUCCESS"} =>
      pipeline.events[i].arg.thoughts =
        pipeline.edgeCases \o pipeline.solutionThoughts \o pipeline.thoughts

\* a run has succeeded whose three lists are not empty, the first of them
\* differing from the last
C33_Witness ==
  /\ pipeline.at = "done"
  /\ LastEvent(pipeline).name = "SOLUTION_SUCCESS"
  /\ pipeline.edgeCases # << >>
  /\ pipeline.solutionThoughts # << >>
  /\ pipeline.thoughts # << >>
  /\ pipeline.edgeCases # pipeline.thoughts

\* ---------------------------------------------------------------- C34
\* the step in which run r returns
Returns(r) == runs[r].pc # "done" /\ runs'[r].pc = "done"

\* the last entry of the history of run r after the step
LastSent(r) == runs'[r].trace[Len(runs'[r].trace)]

\* C34: the view becomes "solutions" only in the step in which a main run
\* returns after sending SOLUTION_SUCCESS, and the step in which a main run
\* returns after sending a failure event leaves the view "queue".
C34_ViewFollowsResult ==
  [][ /\ (view' = "solutions" /\ view # "solutions") =>
           \E r \in RunIds :
              /\ Returns(r)
              /\ runs'[r].kind = "main"
              /\ IsSend(LastSent(r))
              /\ LastSent(r).name = "SOLUTION_SUCCESS"
      /\ \A r \in RunIds :
           ( /\ Returns(r)
             /\ runs'[r].kind = "main"
             /\ IsSend(LastSent(r))
             /\ LastSent(r).name \in
                  {"INITIAL_SOLUTION_ERROR", "API_KEY_INVALID"} )
           => view' = "queue" ]_vars

\* a main run has returned with SOLUTION_SUCCESS and the view is
\* "solutions", while another main run is still in flight
C34_Witness ==
  \E r, o \in RunIds :
    /\ r # o
    /\ runs[r].kind = "main" /\ runs[r].pc = "done"
    /\ runs[r].trace[Len(runs[r].trace)].name = "SOLUTION_SUCCESS"
    /\ view = "solutions"
    /\ runs[o].kind = "main" /\ runs[o].pc \notin {"idle", "done", "gone"}

\* ---------------------------------------------------------------- C35
\* a main run between the creation of its controller and its return
InFlightMain(r) ==
  /\ runs[r].kind = "main"
  /\ runs[r].pc \notin {"idle", "done", "gone"}

\* C35: every main run in flight whose controller has not been aborted is
\* the run whose controller cancelOngoingRequests would abort.
C35_MainRunsCancellable ==
  \A r \in RunIds :
    (InFlightMain(r) /\ r \notin aborted) =>
      currentProcessingAbortController = r

\* ---------------------------------------------------------------- C36
\* C36: whenever the view is "solutions" a ProblemInfo is stored.
C36_ProblemInfoInSolutionsView ==
  view = "solutions" => problemInfo # 0

\* ---------------------------------------------------------------- C37
\* C37: a run whose controller the reset shortcut has aborted does not set
\* the view to "solutions" when it returns, as long as processScreenshots
\* has not been invoked a second time.
C37_ViewStaysQueueAfterReset ==
  [][ \A r \in RunIds :
        ( /\ Returns(r)
          /\ runs[r].cancelledAt # 0
          /\ started = 1 )
        => view' # "solutions" ]_vars

\* ---------------------------------------------------------------- C39
\* run r has sent its start event and its history is still kept
Started(r) ==
  /\ runs[r].kind \in {"main", "debug"}
  /\ runs[r].pc \notin {"idle", "gone"}

\* run r has returned, and the last event it sent is a terminal event of
\* its kind
Terminated(r) ==
  LET last == runs[r].trace[Len(runs[r].trace)]
  IN  /\ runs[r].pc = "done"
      /\ IsSend(last)
      /\ IF runs[r].kind = "main"
         THEN last.name \in {"SOLUTION_SUCCESS", "INITIAL_SOLUTION_ERROR",
                             "API_KEY_INVALID", "NO_SCREENSHOTS"}
         ELSE last.name \in {"DEBUG_SUCCESS", "DEBUG_ERROR", "NO_SCREENSHOTS"}

\* no run is between its start and its return
Quiet == \A r \in RunIds : runs[r].pc \in {"idle", "done", "gone"}

\* C39: when every provider call returns or throws, every run that has sent
\* INITIAL_START or DEBUG_START returns, and when it returns the last event
\* it has sent is a terminal event.
C39_RunsTerminate ==
  /\ [](\A r \in RunIds :
          (Started(r) /\ runs[r].pc = "done") => Terminated(r))
  /\ []<>Quiet

\* a main run that a reset reached during a provider call has returned
\* with a failure event as its last, and no run is in flight
C39_Witness ==
  \E r \in RunIds :
    /\ runs[r].kind = "main" /\ runs[r].cancelledAt # 0 /\ Terminated(r)
    /\ \E i \in 1..runs[r].cancelledAt : IsCall(runs[r].trace[i])
    /\ runs[r].trace[Len(runs[r].trace)].name = "INITIAL_SOLUTION_ERROR"
    /\ Quiet

\* ---------------------------------------------------------------- C40
\* the failure events of a main run
FailureEvents == {"INITIAL_SOLUTION_ERROR", "API_KEY_INVALID"}

\* C40: a main run that has returned without SOLUTION_SUCCESS has sent at
\* most one failure event.
C40_OneFailureEvent ==
  \A r \in RunIds :
    ( /\ runs[r].kind = "main"
      /\ runs[r].pc = "done"
      /\ SentAt(runs[r].trace, {"SOLUTION_SUCCESS"}) = {} )
    => Cardinality(SentAt(runs[r].trace, FailureEvents)) <= 1

\* ---------------------------------------------------------------- C38
\* C38: at most one of the five loading flags of the Solutions component is
\* true, and all five are false after a step in which a main run returns
\* with SOLUTION_SUCCESS or INITIAL_SOLUTION_ERROR as its last event.
C38_OneLoadingFlag ==
  /\ [](Cardinality(loading.flags) <= 1)
  /\ [][ \A r \in RunIds :
           ( /\ Returns(r)
             /\ IsSend(LastSent(r))
             /\ LastSent(r).name \in
                  {"SOLUTION_SUCCESS", "INITIAL_SOLUTION_ERROR"} )
           => loading'.flags = {} ]_vars

====
